---------------------------- MODULE Spec2Model ----------------------------
(***************************************************************************)
(* Model of sklearn/ensemble/weight_boosting.py: the AdaBoost fit loop     *)
(* (BaseWeightBoosting.fit), the three boosters (SAMME, SAMME.R, R2) and   *)
(* the ensemble predictors.                                                *)
(*                                                                         *)
(* Numbers.  A float is modelled by an exact rational <<n, d>> in lowest   *)
(* terms with d > 0; NaN is <<0, 0>>.  Every comparison with NaN is FALSE, *)
(* as in IEEE arithmetic.  An estimator weight is a record: a plain number *)
(* (k = "num"), or learning_rate * ln(arg) kept symbolically (k = "ln"),   *)
(* so that exp(estimator_weight) = arg ^ learning_rate stays rational.     *)
(*                                                                         *)
(* The weak learner is external: what it returns on the training set is    *)
(* drawn nondeterministically in each boosting step.                       *)
(***************************************************************************)
EXTENDS Integers, Sequences, FiniteSets, TLC

VARIABLES
    algorithm,            \* "SAMME" | "SAMME.R" | "R2" (AdaBoostRegressor)
    n_estimators,         \* self.n_estimators
    learning_rate,        \* self.learning_rate
    loss,                 \* self.loss (regressor only)
    estimators_,          \* self.estimators_
    estimator_weights_,   \* self.estimator_weights_
    estimator_errors_,    \* self.estimator_errors_
    n_classes_,           \* self.n_classes_
    pc,                   \* position of the running fit
    iboost,               \* loop index of fit
    sample_weight,        \* fit's local sample_weight
    arg_sample_weight,    \* the sample_weight argument of the running/last fit
    y,                    \* the y argument: class index of each sample (SAMME.R)
    classes,              \* len(estimator.classes_) the weak learner reports for y
    fits,                 \* number of fit calls so far
    outcome,              \* how the last fit call ended
    attempted,            \* weak learners made by the running/last fit
    step,                 \* locals of the latest _boost call
    prev,                 \* self.estimators_ as it was when fit was called
    est_predict,          \* what each member answers on the query sample
    staged,               \* values yielded so far by the staged generator
    acc,                  \* the staged generator's locals: pred, norm, done
    y_predict,            \* result of the last predict call
    queries,              \* times the staged generator queried each member
    decision,             \* result of the last decision_function call
    call                  \* the last prediction call made between fits

fitvars == <<algorithm, n_estimators, learning_rate, loss, estimators_, estimator_weights_, estimator_errors_, n_classes_, pc, iboost, sample_weight,
             arg_sample_weight, y, classes, fits, outcome, attempted, step, prev>>
predvars == <<est_predict, staged, acc, y_predict, queries, decision, call>>
vars == <<fitvars, predvars>>

---------------------------------------------------------------------------
(* Bounds of the model. *)
NSamples == 2           \* X.shape[0]
MaxEstimators == 2      \* largest n_estimators
MaxFits == 2            \* fit calls on the one estimator instance

None == "None"

---------------------------------------------------------------------------
(* Exact rational arithmetic standing for float arithmetic. *)
RECURSIVE Gcd(_, _)
Gcd(a, b) == IF b = 0 THEN a ELSE Gcd(b, a % b)

Abs(a) == IF a < 0 THEN -a ELSE a

NaN == <<0, 0>>
IsNaN(r) == r[2] = 0

Rat(n, d) ==
    IF d = 0 THEN NaN
    ELSE LET g == Gcd(Abs(n), Abs(d))
             s == IF d < 0 THEN -1 ELSE 1
         IN  <<s * (n \div g), s * (d \div g)>>

Zero == Rat(0, 1)
One == Rat(1, 1)
Half == Rat(1, 2)

RAdd(a, b) == IF IsNaN(a) \/ IsNaN(b) THEN NaN
              ELSE Rat(a[1] * b[2] + b[1] * a[2], a[2] * b[2])
RSub(a, b) == IF IsNaN(a) \/ IsNaN(b) THEN NaN
              ELSE Rat(a[1] * b[2] - b[1] * a[2], a[2] * b[2])
RMul(a, b) == IF IsNaN(a) \/ IsNaN(b) THEN NaN
              ELSE Rat(a[1] * b[1], a[2] * b[2])
\* x / 0 is inf or nan in numpy (a warning, no exception); both are NaN here:
\* the model never needs to tell them apart.
RDiv(a, b) == IF IsNaN(a) \/ IsNaN(b) THEN NaN
              ELSE Rat(a[1] * b[2], a[2] * b[1])
RLe(a, b) == ~IsNaN(a) /\ ~IsNaN(b) /\ a[1] * b[2] <= b[1] * a[2]
RLt(a, b) == ~IsNaN(a) /\ ~IsNaN(b) /\ a[1] * b[2] < b[1] * a[2]
RGe(a, b) == RLe(b, a)
RGt(a, b) == RLt(b, a)
REq(a, b) == ~IsNaN(a) /\ ~IsNaN(b) /\ a = b

RECURSIVE RPow(_, _)
RPow(a, k) == IF k = 0 THEN One ELSE RMul(a, RPow(a, k - 1))

RECURSIVE RSum(_)
RSum(s) == IF s = <<>> THEN Zero ELSE RAdd(Head(s), RSum(Tail(s)))

(* Estimator weights. *)
Num(r) == [k |-> "num", lr |-> 0, v |-> r]
LnW(lr, q) == [k |-> "ln", lr |-> lr, v |-> q]

LnOf(lr, q) == IF IsNaN(q) THEN Num(NaN) ELSE LnW(lr, q)
\* exp(estimator_weight), for the weights the boosters exponentiate
ExpW(w) == IF w.k = "ln" THEN RPow(w.v, w.lr) ELSE NaN
\* estimator_weight < 0
IsNegW(w) == IF w.k = "ln" THEN RLt(ExpW(w), One) ELSE RLt(w.v, Zero)

(* Sequence helpers. *)
Idx == 1..NSamples
Const(n, c) == [i \in 1..n |-> c]
SetAt(s, i, x) == [s EXCEPT ![i] = x]
Pop(s) == SubSeq(s, 1, Len(s) - 1)
Min(a, b) == IF a < b THEN a ELSE b

---------------------------------------------------------------------------
(* Inputs. *)
Algorithms == {"SAMME", "SAMME.R", "R2"}
\* 0 is rejected by fit; with 1 every exp(estimator_weight) is rational
LearningRates == {0, 1}
\* "absolute" is no loss of the regressor and is rejected by fit; the
\* "exponential" loss, 1 - exp(-error), is irrational and left out
Losses == {"linear", "square", "absolute"}
WeightValues == {-1, 0, 1, 2}
Classes == {2, 3}
\* |y_predict - y| of the regression weak learner on one training sample
AbsErrors == {0, 2}
\* generator.random_sample draws from [0, 1)
Uniforms == {Rat(0, 1), Rat(1, 2)}

\* sample_weight arguments: None (the empty sequence), or a vector
SuppliedWeights ==
    {<<>>} \cup {[i \in Idx |-> IF i = 1 THEN a ELSE b] :
                    a \in WeightValues, b \in {-1, 1}}

\* the y argument, as seen by the weak learner: K classes, a class per sample
Targets ==
    IF algorithm = "R2" THEN {[K |-> 0, y |-> <<>>]}
    ELSE IF algorithm = "SAMME" THEN {[K |-> K, y |-> <<>>] : K \in Classes}
    ELSE UNION {{[K |-> K, y |-> l] : l \in [Idx -> 1..K]} : K \in Classes}

\* predict_proba rows of the weak learner; the log-ratios of their entries
\* are whole multiples of ln 2, which keeps exp(estimator_weight) rational.
\* With the last row a sample of class 2 is misclassified (argmax is class
\* 3) and its weight is nevertheless scaled down, by 1/2.
ProbaRows(K) ==
    IF K = 2
    THEN {<<Rat(1, 5), Rat(4, 5)>>, <<Rat(4, 5), Rat(1, 5)>>, <<Zero, Zero>>}
    ELSE {<<Rat(8, 10), Rat(1, 10), Rat(1, 10)>>,
          <<Rat(1, 49), Rat(16, 49), Rat(32, 49)>>}

---------------------------------------------------------------------------
(* State after construction: BaseWeightBoosting.__init__.  The arrays that *)
(* are None in the code are the empty sequence here.                       *)
NoStep == [iboost |-> -1, sample_weight |-> <<>>, incorrect |-> <<>>,
           error_vect |-> <<>>, estimator_error |-> NaN, returned |-> FALSE,
           boosted |-> <<>>, uniform_samples |-> <<>>, bootstrap_idx |-> <<>>]

\* a generator that has not run yet: pred is None, norm = 0.
NoAcc == [pred |-> <<>>, norm |-> Zero, done |-> FALSE]
\* no prediction made yet (class indices and regression values are >= 1)
NoPrediction == 0
\* no prediction operation called since the last fit started
NoCall == [op |-> None, raised |-> None, values |-> 0]

InitPredictor ==
    /\ est_predict = <<>>
    /\ staged = <<>>
    /\ acc = NoAcc
    /\ y_predict = NoPrediction
    /\ queries = <<>>
    /\ decision = <<>>
    /\ call = NoCall

Init ==
    /\ algorithm \in Algorithms
    /\ n_estimators \in 1..MaxEstimators
    /\ learning_rate \in LearningRates
    /\ loss \in IF algorithm = "R2" THEN Losses ELSE {"linear"}
    /\ estimators_ = <<>>
    /\ estimator_weights_ = <<>>
    /\ estimator_errors_ = <<>>
    /\ n_classes_ = 0
    /\ pc = "idle"
    /\ iboost = 0
    /\ sample_weight = <<>>
    /\ arg_sample_weight = <<>>
    /\ y = <<>>
    /\ classes = 0
    /\ fits = 0
    /\ outcome = None
    /\ attempted = 0
    /\ step = NoStep
    /\ prev = <<>>
    /\ InitPredictor

config == <<algorithm, n_estimators, learning_rate, loss>>

---------------------------------------------------------------------------
(* BaseWeightBoosting.fit, up to the loop. *)

\* lines 98-104: the initial weight vector
InitialWeights(sw) ==
    IF sw = <<>>
    THEN Const(NSamples, Rat(1, NSamples))
    ELSE LET total == RSum([i \in Idx |-> Rat(sw[i], 1)])
         IN  [i \in Idx |-> RDiv(Rat(sw[i], 1), total)]

\* lines 107-110, applied to the vector normalised at line 104
NonPositiveSum(w) == RLe(RSum(w), Zero)

\* lines 112-115
ClearEstimatorsKept(e) == e
ClearEstimators(e) == <<>>
ClearWeightsKept(n) ==
    IF Len(estimator_weights_) = n THEN estimator_weights_
    ELSE Const(n, Num(Zero))
ClearWeights(n) == Const(n, Num(Zero))
ClearErrors(n) == Const(n, One)

\* AdaBoostRegressor.fit lines 883-885, BaseWeightBoosting.fit lines 89-90
InvalidParams ==
    \/ algorithm = "R2" /\ loss \notin {"linear", "square", "exponential"}
    \/ learning_rate <= 0

\* The estimator is followed up to its first prediction call: a prediction
\* operation changes nothing that fit reads, so the fits after one are the
\* fits explored from the state before it.
FitRejected(sw, t) ==
    /\ pc = "idle"
    /\ fits < MaxFits
    /\ call = NoCall
    /\ InvalidParams \/ (sw # <<>> /\ NonPositiveSum(InitialWeights(sw)))
    /\ fits' = fits + 1
    /\ arg_sample_weight' = sw
    /\ y' = t.y
    /\ classes' = t.K
    /\ outcome' = "ValueError"
    /\ attempted' = 0
    /\ step' = NoStep
    /\ prev' = estimators_
    /\ UNCHANGED <<config, estimators_, estimator_weights_, estimator_errors_,
                   n_classes_, pc, iboost, sample_weight, predvars>>

FitStart(sw, t) ==
    /\ pc = "idle"
    /\ fits < MaxFits
    /\ call = NoCall
    /\ ~InvalidParams
    /\ \E w \in {InitialWeights(sw)} :
           /\ ~(sw # <<>> /\ NonPositiveSum(w))
           /\ sample_weight' = w
    /\ fits' = fits + 1
    /\ arg_sample_weight' = sw
    /\ y' = t.y
    /\ classes' = t.K
    /\ prev' = estimators_
    /\ estimators_' = ClearEstimators(estimators_)
    /\ estimator_weights_' = ClearWeights(n_estimators)
    /\ estimator_errors_' = ClearErrors(n_estimators)
    /\ iboost' = 0
    /\ pc' = "boost"
    /\ outcome' = None
    /\ attempted' = 0
    /\ step' = NoStep
    /\ UNCHANGED <<config, n_classes_, predvars>>

---------------------------------------------------------------------------
(* The boosters.  Each returns what _boost returns: ret = FALSE stands for *)
(* (None, None, None); estimators is self.estimators_ when _boost returns. *)

\* BaseEnsemble._make_estimator: a fresh weak learner, appended to the list
_make_estimator(ests, fit, ib) == Append(ests, [fit |-> fit, iboost |-> ib])

\* np.average(incorrect, weights=sample_weight)
Average(incorrect, w) ==
    RDiv(RSum([j \in Idx |-> IF incorrect[j] THEN w[j] ELSE Zero]), RSum(w))

Terminate(ests, err) ==
    [ret |-> FALSE, sample_weight |-> <<>>, estimator_weight |-> Num(NaN),
     estimator_error |-> NaN, raw |-> err, estimators |-> ests]
Success(w, ew, err, raw, ests) ==
    [ret |-> TRUE, sample_weight |-> w, estimator_weight |-> ew,
     estimator_error |-> err, raw |-> raw, estimators |-> ests]

\* "Only boost positive weights": (sample_weight > 0) | (estimator_weight < 0)
BoostMask(wj, neg) == RGt(wj, Zero) \/ neg

\* the update without the `incorrect` factor: every sample is scaled
BoostDiscreteAll(w, ew, incorrect) ==
    [j \in Idx |->
        IF IsNaN(ExpW(ew)) THEN NaN
        ELSE IF BoostMask(w[j], IsNegW(ew))
             THEN RMul(w[j], ExpW(ew))
             ELSE w[j]]
\* sample_weight *= exp(estimator_weight * incorrect * mask), lines 509-511
BoostDiscreteWeights(w, ew, incorrect) ==
    [j \in Idx |->
        IF IsNaN(ExpW(ew)) THEN NaN
        ELSE IF incorrect[j] /\ BoostMask(w[j], IsNegW(ew))
             THEN RMul(w[j], ExpW(ew))
             ELSE w[j]]

\* a threshold that lets every error below 1 through
ChanceLevelOne(K) == One
\* the chance level 1 - 1/K, line 497
ChanceLevel(K) == RSub(One, Rat(1, K))

DiscardDiscreteKept(ests) == ests
\* self.estimators_.pop(-1), line 498
DiscardDiscrete(ests) == Pop(ests)

\* AdaBoostClassifier._boost_discrete
_boost_discrete(ib, w, incorrect, K, ests) ==
    LET estimator_error == Average(incorrect, w)
        q == RMul(RDiv(RSub(One, estimator_error), estimator_error),
                  Rat(K - 1, 1))
        estimator_weight == LnOf(learning_rate, q)
    IN  IF RLe(estimator_error, Zero)
        THEN Success(w, Num(One), Zero, estimator_error, ests)
        ELSE IF RGe(estimator_error, ChanceLevel(K))
        THEN Terminate(DiscardDiscrete(ests), estimator_error)
        ELSE Success(IF ib # n_estimators - 1
                     THEN BoostDiscreteWeights(w, estimator_weight, incorrect)
                     ELSE w,
                     estimator_weight, estimator_error, estimator_error, ests)

\* np.argmax over one row: the first index holding the maximum
ArgMax(row) ==
    CHOOSE k \in 1..Len(row) :
        /\ \A l \in 1..Len(row) : RLe(row[l], row[k])
        /\ \A l \in 1..(k - 1) : RLt(row[l], row[k])

\* y_predict_proba[y_predict_proba <= 0] = 1e-5, line 456
ClampProba(row) ==
    [k \in 1..Len(row) |-> IF RLe(row[k], Zero) THEN Rat(1, 100000) ELSE row[k]]

RECURSIVE Pow2(_)
Pow2(k) == IF k = 0 THEN One
           ELSE IF k > 0 THEN RMul(Rat(2, 1), Pow2(k - 1))
           ELSE RMul(Rat(1, 2), Pow2(k + 1))
\* log2(a / b), on rows whose ratios are powers of two
Log2Ratio(a, b) == CHOOSE k \in (-5)..5 : RDiv(a, b) = Pow2(k)

\* exp(estimator_weight[j]) of lines 459-461 for a sample of true class t:
\* exp(-lr * (K-1)/K * (ln p_t - sum_{k # t} ln p_k / (K-1)))
\*   = 2 ^ (-lr * sum_{k # t} log2(p_t / p_k) / K)
RECURSIVE SumLog(_, _, _)
SumLog(row, t, k) ==
    IF k = 0 THEN 0
    ELSE (IF k = t THEN 0 ELSE Log2Ratio(row[t], row[k])) + SumLog(row, t, k - 1)
ExpRealWeight(row, t, K) ==
    Pow2(-(learning_rate * SumLog(ClampProba(row), t, K)) \div K)

\* the update written with += in place of *=
BoostRealWeightsAdded(w, yy, proba, K) ==
    [j \in Idx |->
        LET m == ExpRealWeight(proba[j], yy[j], K)
        IN  IF BoostMask(w[j], RLt(m, One))
            THEN RAdd(w[j], m)
            ELSE w[j]]
\* sample_weight *= exp(estimator_weight * mask), lines 466-468
BoostRealWeights(w, yy, proba, K) ==
    [j \in Idx |->
        LET m == ExpRealWeight(proba[j], yy[j], K)
        IN  IF BoostMask(w[j], RLt(m, One))
            THEN RMul(w[j], m)
            ELSE w[j]]

\* AdaBoostClassifier._boost_real
_boost_real(ib, w, yy, proba, K, ests) ==
    LET incorrect == [j \in Idx |-> ArgMax(proba[j]) # yy[j]]
        estimator_error == Average(incorrect, w)
    IN  IF RLe(estimator_error, Zero)
        THEN Success(w, Num(One), Zero, estimator_error, ests)
        ELSE Success(IF ib # n_estimators - 1
                     THEN BoostRealWeights(w, yy, proba, K)
                     ELSE w,
                     Num(One), estimator_error, estimator_error, ests)

\* lines 943-952: normalise by the largest error, then apply the loss
RECURSIVE RMax(_)
RMax(s) == IF Len(s) = 1 THEN s[1]
           ELSE LET m == RMax(Tail(s)) IN IF RGt(s[1], m) THEN s[1] ELSE m
LossVector(abs_err) ==
    LET error_max == RMax(abs_err)
        normed == [j \in Idx |-> IF error_max # Zero
                                 THEN RDiv(abs_err[j], error_max)
                                 ELSE abs_err[j]]
    IN  [j \in Idx |-> IF loss = "square" THEN RMul(normed[j], normed[j])
                       ELSE normed[j]]

\* the integer value of a whole rational
RInt(r) == r[1] \div r[2]

\* sample_weight *= beta ^ ((1 - error_vect) * learning_rate), lines 973-975
BoostR2Weights(w, beta, error_vect) ==
    [j \in Idx |->
        IF IsNaN(beta) THEN NaN
        ELSE RMul(w[j], RPow(beta, RInt(RSub(One, error_vect[j]))
                                    * learning_rate))]

\* cdf = sample_weight.cumsum(); cdf /= cdf[-1], lines 931-932
Cdf(w) ==
    LET cumsum == [i \in Idx |-> RSum(SubSeq(w, 1, i))]
    IN  [i \in Idx |-> RDiv(cumsum[i], cumsum[NSamples])]

\* the order numpy searches by: NaN sorts after every number
KeyLess(a, b) == IF IsNaN(a) THEN FALSE ELSE IsNaN(b) \/ RLt(a, b)

\* side='left': the binary search moves right only past entries < key
RECURSIVE searchsorted_left(_, _, _, _)
searchsorted_left(a, key, lo, hi) ==
    IF lo >= hi THEN lo
    ELSE LET mid == lo + (hi - lo) \div 2
         IN  IF KeyLess(a[mid + 1], key)
             THEN searchsorted_left(a, key, mid + 1, hi)
             ELSE searchsorted_left(a, key, lo, mid)
\* cdf.searchsorted(key, side='right'), line 934: the binary search over
\* positions lo..hi (counted from 0) moves left only at entries > key
RECURSIVE searchsorted(_, _, _, _)
searchsorted(a, key, lo, hi) ==
    IF lo >= hi THEN lo
    ELSE LET mid == lo + (hi - lo) \div 2
         IN  IF KeyLess(key, a[mid + 1])
             THEN searchsorted(a, key, lo, mid)
             ELSE searchsorted(a, key, mid + 1, hi)

\* lines 931-936: one index (from 0) per uniform draw
Bootstrap(w, uniform_samples) ==
    [uniform_samples |-> uniform_samples,
     bootstrap_idx |-> [j \in Idx |->
         searchsorted(Cdf(w), uniform_samples[j], 0, NSamples)]]
\* the classifiers draw no bootstrap sample
NoBootstrap == [uniform_samples |-> <<>>, bootstrap_idx |-> <<>>]

DiscardR2Always(ests) == Pop(ests)
DiscardR2Never(ests) == ests
\* lines 963-964: discard the current estimator only if it isn't the only one
DiscardR2(ests) == IF Len(ests) > 1 THEN Pop(ests) ELSE ests

\* AdaBoostRegressor._boost, from line 943.  The bootstrap sample of lines
\* 929-941 (Bootstrap) only decides what the weak learner is trained on;
\* what the learner then answers on the training set is abs_err.
_boost(ib, w, abs_err, ests) ==
    LET error_vect == LossVector(abs_err)
        estimator_error == RSum([j \in Idx |-> RMul(w[j], error_vect[j])])
        beta == RDiv(estimator_error, RSub(One, estimator_error))
        estimator_weight == LnOf(learning_rate, RDiv(One, beta))
    IN  IF RLe(estimator_error, Zero)
        THEN Success(w, Num(One), Zero, estimator_error, ests)
        ELSE IF RGe(estimator_error, Half)
        THEN Terminate(DiscardR2(ests), estimator_error)
        ELSE Success(IF ib # n_estimators - 1
                     THEN BoostR2Weights(w, beta, error_vect)
                     ELSE w,
                     estimator_weight, estimator_error, estimator_error, ests)

---------------------------------------------------------------------------
(* One iteration of the loop of fit, lines 117-143. *)

NormalizeSkipped(w) == w
\* sample_weight /= sample_weight_sum, line 143
Normalize(w) == [j \in Idx |-> RDiv(w[j], RSum(w))]

LoopExitIgnoringWeightSum(r, ib) ==
    \/ ~r.ret
    \/ REq(r.estimator_error, Zero)
    \/ ib + 1 >= n_estimators
LoopExitIgnoringZeroError(r, ib) ==
    \/ ~r.ret
    \/ RLe(RSum(r.sample_weight), Zero)
    \/ ib + 1 >= n_estimators
\* the loop ends after this iteration
LoopExit(r, ib) ==
    \/ ~r.ret
    \/ REq(r.estimator_error, Zero)
    \/ RLe(RSum(r.sample_weight), Zero)
    \/ ib + 1 >= n_estimators

LoopBody(r, incorrect, error_vect, boot) ==
    /\ estimators_' = r.estimators
    /\ attempted' = attempted + 1
    /\ step' = [iboost |-> iboost, sample_weight |-> sample_weight,
                incorrect |-> incorrect, error_vect |-> error_vect,
                estimator_error |-> r.raw, returned |-> r.ret,
                boosted |-> r.sample_weight,
                uniform_samples |-> boot.uniform_samples,
                bootstrap_idx |-> boot.bootstrap_idx]
    /\ estimator_weights_' =
           IF r.ret THEN SetAt(estimator_weights_, iboost + 1, r.estimator_weight)
           ELSE estimator_weights_
    /\ estimator_errors_' =
           IF r.ret THEN SetAt(estimator_errors_, iboost + 1, r.estimator_error)
           ELSE estimator_errors_
    /\ sample_weight' =
           IF ~r.ret THEN <<>>
           ELSE IF REq(r.estimator_error, Zero) THEN r.sample_weight
           ELSE IF RLe(RSum(r.sample_weight), Zero) THEN r.sample_weight
           ELSE IF iboost < n_estimators - 1 THEN Normalize(r.sample_weight)
           ELSE r.sample_weight
    /\ iboost' = IF LoopExit(r, iboost) THEN iboost ELSE iboost + 1
    /\ pc' = IF LoopExit(r, iboost) THEN "importances" ELSE "boost"
    /\ UNCHANGED <<config, arg_sample_weight, y, classes, fits, outcome, prev,
                   predvars>>

\* if iboost == 0: self.n_classes_ = len(self.classes_)
NClasses == IF iboost = 0 THEN classes ELSE n_classes_
SetClasses == n_classes_' = NClasses

\* np.average raises ZeroDivisionError when the weights sum to zero
AverageFails(w) == REq(RSum(w), Zero)

\* the call of _boost raises: fit ends with the exception
BoostRaises(exc) ==
    /\ estimators_' = _make_estimator(estimators_, fits, iboost)
    /\ attempted' = attempted + 1
    /\ pc' = "idle"
    /\ outcome' = exc
    /\ UNCHANGED <<config, estimator_weights_, estimator_errors_, iboost,
                   sample_weight, arg_sample_weight, y, classes, fits, step,
                   prev, predvars>>

BoostDiscrete(incorrect) ==
    /\ pc = "boost"
    /\ algorithm = "SAMME"
    /\ SetClasses
    /\ IF AverageFails(sample_weight)
       THEN BoostRaises("ZeroDivisionError")
       ELSE \E r \in {_boost_discrete(iboost, sample_weight, incorrect, NClasses,
                                      _make_estimator(estimators_, fits, iboost))} :
               LoopBody(r, incorrect, <<>>, NoBootstrap)

BoostReal(proba) ==
    /\ pc = "boost"
    /\ algorithm = "SAMME.R"
    /\ SetClasses
    /\ IF AverageFails(sample_weight)
       THEN BoostRaises("ZeroDivisionError")
       ELSE \E r \in {_boost_real(iboost, sample_weight, y, proba, NClasses,
                                  _make_estimator(estimators_, fits, iboost))} :
               LoopBody(r, [j \in Idx |-> ArgMax(proba[j]) # y[j]], <<>>,
                        NoBootstrap)

BoostR2(abs_err, uniform_samples) ==
    /\ pc = "boost"
    /\ algorithm = "R2"
    /\ UNCHANGED n_classes_
    /\ \E r \in {_boost(iboost, sample_weight, abs_err,
                         _make_estimator(estimators_, fits, iboost))} :
           LoopBody(r, <<>>, LossVector(abs_err),
                    Bootstrap(sample_weight, uniform_samples))

\* lines 145-160: the feature importances, then return self.
\* self.compute_importances is read here only, and whether the fitted weak
\* learners expose feature_importances_ is up to the learner: both are
\* inputs of this step.
ImportancesFail(compute_importances, has_importances) ==
    compute_importances /\ ~has_importances /\ estimators_ # <<>>

FitEnd(compute_importances, has_importances) ==
    /\ pc = "importances"
    /\ pc' = "idle"
    /\ outcome' = IF ImportancesFail(compute_importances, has_importances)
                  THEN "AttributeError"
                  ELSE "returned"
    /\ UNCHANGED <<config, estimators_, estimator_weights_, estimator_errors_,
                   n_classes_, iboost, sample_weight, arg_sample_weight, y,
                   classes, fits, attempted, step, prev, predvars>>

---------------------------------------------------------------------------
(* The prediction operations, called between fits: which of them raise,   *)
(* and how many values the others produce.  The values themselves are the *)
(* subject of SpecPredict.                                                 *)
ClassifierOps == {"predict", "staged_predict", "decision_function",
                  "staged_decision_function", "predict_proba",
                  "staged_predict_proba"}
RegressorOps == {"predict", "staged_predict"}
PredictionOps == IF algorithm = "R2" THEN RegressorOps ELSE ClassifierOps

\* if not self.estimators_: raise RuntimeError("... is not initialized ...")
NotFitted == "RuntimeError"
\* self.n_classes_ is first assigned by _boost at iboost == 0: reading it
\* before raises AttributeError
NClassesUnset == n_classes_ = 0
\* zip(self.estimator_weights_, self.estimators_)
Zipped == Min(Len(estimator_weights_), Len(estimators_))

\* the exception a prediction operation ends with, None when it has none;
\* a generator meets it at the first next()
Raised(op) ==
    IF algorithm = "R2"
    THEN \* predict -> _get_median_predict, lines 981-984;
         \* staged_predict loops over xrange(len(self.estimators_)) first
         IF op = "predict" /\ estimators_ = <<>> THEN NotFitted ELSE None
    ELSE IF op \in {"decision_function", "staged_decision_function", "predict"}
         THEN \* lines 587-590, 639-642; predict calls decision_function first
              IF estimators_ = <<>> THEN NotFitted ELSE None
    ELSE IF NClassesUnset
         THEN \* lines 558, 690, 733
              "AttributeError"
    ELSE IF op = "staged_predict"
         THEN IF estimators_ = <<>> THEN NotFitted ELSE None
    ELSE IF op = "predict_proba"
         THEN \* proba is still None at line 703: float * None
              IF Zipped = 0 THEN "TypeError" ELSE None
    ELSE \* staged_predict_proba: the loop of line 736 has nothing to do
         None

\* how many values the operation hands to its caller
Produced(op) ==
    IF Raised(op) # None THEN 0
    ELSE IF op = "staged_predict" /\ algorithm = "R2" THEN Len(estimators_)
    ELSE IF op \in {"staged_predict", "staged_decision_function",
                    "staged_predict_proba"} THEN Zipped
    ELSE 1

PredictionCall(op) ==
    /\ pc = "idle"
    /\ op \in PredictionOps
    /\ call' = [op |-> op, raised |-> Raised(op), values |-> Produced(op)]
    /\ UNCHANGED <<fitvars, est_predict, staged, acc, y_predict, queries,
                   decision>>

Next ==
    \/ \E sw \in SuppliedWeights, t \in Targets : FitRejected(sw, t)
    \/ \E sw \in SuppliedWeights, t \in Targets : FitStart(sw, t)
    \/ \E incorrect \in [Idx -> BOOLEAN] : BoostDiscrete(incorrect)
    \/ \E proba \in [Idx -> ProbaRows(classes)] : BoostReal(proba)
    \/ \E abs_err \in [Idx -> {Rat(e, 1) : e \in AbsErrors}],
          uniform_samples \in [Idx -> Uniforms] :
           BoostR2(abs_err, uniform_samples)
    \/ \E compute_importances \in BOOLEAN, has_importances \in BOOLEAN :
           FitEnd(compute_importances, has_importances)
    \/ \E op \in ClassifierOps \cup RegressorOps : PredictionCall(op)

Spec == Init /\ [][Next]_vars

---------------------------------------------------------------------------
(* The predictors.  They are functions of the fitted estimator and of what *)
(* each member answers on the query sample X (one sample): est_predict[i]  *)
(* is member i's predict(X) (SAMME: a class index, R2: a value) or its     *)
(* predict_proba(X) row (SAMME.R).  Here the estimator weights are plain   *)
(* numbers.                                                                *)
MaxMembers == 3

PredictValues == {1, 2, 3}
MaxValue == CHOOSE v \in PredictValues : \A u \in PredictValues : u <= v
PredictWeights == {Rat(1, 5), Rat(3, 10), Rat(1, 2)}

\* _samme_proba, lines 234-243, in units of ln 2:
\* (K-1) * (ln p_k - (1/K) * sum_l ln p_l) = ((K-1)/K) * sum_l ln(p_k / p_l)
RECURSIVE SumLogAll(_, _, _)
SumLogAll(row, k, l) ==
    IF l = 0 THEN 0 ELSE Log2Ratio(row[k], row[l]) + SumLogAll(row, k, l - 1)
_samme_proba(row, K) ==
    LET proba == ClampProba(row)
    IN  [k \in 1..K |-> Rat((K - 1) * SumLogAll(proba, k, K), K)]

\* lines 602-606: the contribution of member i, which answers `answer` on
\* the query sample, to the decision function
CurrentPred(answer, i, K) ==
    IF algorithm = "SAMME.R"
    THEN _samme_proba(answer, K)
    ELSE [k \in 1..K |-> IF answer = k THEN estimator_weights_[i].v
                         ELSE Zero]

\* the loop of lines 597-611, over the first m pairs; answers[i] is what
\* member i answers on X
RECURSIVE Accumulate(_, _, _)
Accumulate(answers, m, K) ==
    IF m = 0 THEN [pred |-> <<>>, norm |-> Zero]
    ELSE LET a == Accumulate(answers, m - 1, K)
             c == CurrentPred(answers[m], m, K)
         IN  [pred |-> IF a.pred = <<>> THEN c
                       ELSE [k \in 1..K |-> RAdd(a.pred[k], c[k])],
              norm |-> RAdd(a.norm, estimator_weights_[m].v)]

\* the two columns summed without the sign flip of line 615
decision_function_unsigned(answers, K) ==
    LET a == Accumulate(answers, Zipped, K)
        pred == [k \in 1..K |-> RDiv(a.pred[k], a.norm)]
    IN  IF K = 2 THEN <<RAdd(pred[1], pred[2])>> ELSE pred
\* AdaBoostClassifier.decision_function, lines 613-617
decision_function(answers, K) ==
    LET a == Accumulate(answers, Zipped, K)
        pred == [k \in 1..K |-> RDiv(a.pred[k], a.norm)]
    IN  IF K = 2
        THEN <<RAdd(RMul(pred[1], Rat(-1, 1)), pred[2])>>
        ELSE pred

\* lines 533-536 and 561-568: from a decision to a class index
TakeClass(pred, K) ==
    IF K = 2 THEN (IF RGt(pred[1], Zero) THEN 2 ELSE 1)
    ELSE ArgMax(pred)

\* what staged_decision_function yields from its accumulator, lines 665-670
StagedDecision(a, K) ==
    IF K = 2
    THEN <<RAdd(RDiv(RMul(a.pred[1], Rat(-1, 1)), a.norm),
                RDiv(a.pred[2], a.norm))>>
    ELSE [k \in 1..K |-> RDiv(a.pred[k], a.norm)]

\* np.argsort of one row: an order that sorts it (ties in any order)
ArgSorts(p) ==
    {o \in [1..Len(p) -> 1..Len(p)] :
        /\ \A a, b \in 1..Len(p) : a # b => o[a] # o[b]
        /\ \A a \in 1..(Len(p) - 1) : p[o[a]] <= p[o[a + 1]]}

RECURSIVE CumSum(_, _, _)
CumSum(w, o, i) == IF i = 0 THEN Zero ELSE RAdd(CumSum(w, o, i - 1), w[o[i]].v)

HalfMassFull(total) == total
\* 0.5 * weight_cdf[:, -1], line 998
HalfMass(total) == RMul(Half, total)

MedianOrAboveStrict(cdf, total) == RGt(cdf, HalfMass(total))
\* weight_cdf >= 0.5 * weight_cdf[:, -1], line 998
MedianOrAbove(cdf, total) == RGe(cdf, HalfMass(total))

\* AdaBoostRegressor._get_median_predict, lines 986-1003; sorted_idx is the
\* argsort of the first `limit` predictions
_get_median_predict(limit, sorted_idx) ==
    LET n == Len(sorted_idx)
        total == CumSum(estimator_weights_, sorted_idx, n)
        Above(i) == MedianOrAbove(CumSum(estimator_weights_, sorted_idx, i), total)
        \* median_or_above.argmax(axis=1): the first True, the first
        \* position when there is none
        median_idx ==
            IF \E i \in 1..n : Above(i)
            THEN CHOOSE i \in 1..n : Above(i) /\ \A j \in 1..(i - 1) : ~Above(j)
            ELSE 1
    IN  est_predict[sorted_idx[median_idx]]

\* if limit < 1: limit = len(self.estimators_)
Limit(limit) == IF limit < 1 THEN Len(estimators_) ELSE limit
Predictions(limit) == SubSeq(est_predict, 1, Min(Limit(limit), Len(estimators_)))

\* the members _get_median_predict asks for a prediction, line 990-991
QueriedLast(limit) == {Min(Limit(limit), Len(estimators_))}
Queried(limit) == 1..Min(Limit(limit), Len(estimators_))
\* one more est.predict / predict_proba call on each member of asked
Query(q, asked) == [i \in DOMAIN q |-> IF i \in asked THEN q[i] + 1 ELSE q[i]]

StagedLimitShort(i) == i
\* limit=i + 1, line 1044 (i counts from 0)
StagedLimit(i) == i + 1

\* A fitted estimator: up to MaxMembers members, arrays of n_estimators
\* entries of which those past the members are still 0 (weights) and 1
\* (errors).  SAMME.R records the weight 1 for every member; a regression
\* fit may have kept a single member without recording its weight.
Members(m) == [i \in 1..m |-> [fit |-> 1, iboost |-> i - 1]]
FittedWeights(m) ==
    IF algorithm = "SAMME.R" THEN {[i \in 1..m |-> Num(One)]}
    ELSE [1..m -> {Num(w) : w \in PredictWeights}]
         \cup (IF algorithm = "R2" /\ m = 1 THEN {<<Num(Zero)>>} ELSE {})
Answers(m, K) ==
    IF algorithm = "SAMME" THEN [1..m -> 1..K]
    ELSE IF algorithm = "SAMME.R" THEN [1..m -> ProbaRows(K)]
    ELSE [1..m -> PredictValues]
Padded(w, n) == [i \in 1..n |-> IF i <= Len(w) THEN w[i] ELSE Num(Zero)]

InitPredict ==
    /\ algorithm \in Algorithms
    /\ n_estimators = MaxMembers
    /\ learning_rate = 1
    /\ loss = "linear"
    /\ n_classes_ \in IF algorithm = "R2" THEN {0} ELSE Classes
    /\ \E m \in 1..MaxMembers :
           /\ estimators_ = Members(m)
           /\ \E w \in FittedWeights(m) : estimator_weights_ = Padded(w, MaxMembers)
           /\ est_predict \in Answers(m, n_classes_)
    /\ estimator_errors_ = ClearErrors(MaxMembers)
    /\ pc = "idle"
    /\ iboost = 0
    /\ sample_weight = <<>>
    /\ arg_sample_weight = <<>>
    /\ y = <<>>
    /\ classes = n_classes_
    /\ fits = 1
    /\ outcome = "returned"
    /\ attempted = Len(estimators_)
    /\ step = NoStep
    /\ prev = <<>>
    /\ staged = <<>>
    /\ acc = NoAcc
    /\ y_predict = NoPrediction
    /\ queries = Const(Len(estimators_), 0)
    /\ decision = <<>>
    /\ call = NoCall

\* AdaBoostClassifier.predict
PredictClass ==
    /\ algorithm # "R2"
    /\ estimators_ # <<>>
    /\ y_predict = NoPrediction
    /\ \E pred \in {decision_function(est_predict, n_classes_)} :
           /\ decision' = pred
           /\ y_predict' = TakeClass(pred, n_classes_)
    /\ UNCHANGED <<fitvars, est_predict, staged, acc, queries, call>>

\* AdaBoostRegressor.predict
PredictValue(sorted_idx) ==
    /\ algorithm = "R2"
    /\ estimators_ # <<>>
    /\ y_predict = NoPrediction
    /\ sorted_idx \in ArgSorts(Predictions(-1))
    /\ y_predict' = _get_median_predict(-1, sorted_idx)
    /\ UNCHANGED <<fitvars, est_predict, staged, acc, queries, decision,
                   call>>

\* AdaBoostClassifier.staged_predict: the generator runs to its next yield
StagedClass ==
    /\ algorithm # "R2"
    /\ estimators_ # <<>>
    /\ ~acc.done
    /\ Len(staged) < Zipped
    /\ LET i == Len(staged) + 1
       IN  \E c \in {CurrentPred(est_predict[i], i, n_classes_)} :
           \E a \in {[pred |-> IF acc.pred = <<>> THEN c
                               ELSE [k \in 1..n_classes_ |->
                                        RAdd(acc.pred[k], c[k])],
                      norm |-> RAdd(acc.norm, estimator_weights_[i].v),
                      done |-> FALSE]} :
               /\ acc' = a
               /\ staged' = Append(staged,
                                   TakeClass(StagedDecision(a, n_classes_),
                                             n_classes_))
               /\ queries' = Query(queries, {i})
    /\ UNCHANGED <<fitvars, est_predict, y_predict, decision, call>>

\* AdaBoostRegressor.staged_predict: the generator runs to its next yield
StagedValue(sorted_idx) ==
    /\ algorithm = "R2"
    /\ ~acc.done
    /\ Len(staged) < Len(estimators_)
    /\ sorted_idx \in ArgSorts(Predictions(StagedLimit(Len(staged))))
    /\ staged' = Append(staged,
                        _get_median_predict(StagedLimit(Len(staged)), sorted_idx))
    /\ queries' = Query(queries, Queried(StagedLimit(Len(staged))))
    /\ UNCHANGED <<fitvars, est_predict, acc, y_predict, decision, call>>

\* the generator's loop is over: it returns
StagedStop ==
    /\ ~acc.done
    /\ Len(staged) = (IF algorithm = "R2" THEN Len(estimators_) ELSE Zipped)
    /\ acc' = [acc EXCEPT !.done = TRUE]
    /\ UNCHANGED <<fitvars, est_predict, staged, y_predict, queries, decision,
                   call>>

\* one member's output with the two class labels exchanged: the other class
\* (SAMME), the two probability columns swapped (SAMME.R)
SwapLabels(out) ==
    IF algorithm = "SAMME.R" THEN <<out[2], out[1]>> ELSE 3 - out
\* what the members answer on X once the binary problem is relabelled
Relabelled(answers) == [i \in DOMAIN answers |-> SwapLabels(answers[i])]

\* the index orders argsort can return: the permutations of 1..m
Orders ==
    UNION {{o \in [1..m -> 1..m] : \A a, b \in 1..m : a # b => o[a] # o[b]} :
              m \in 1..MaxMembers}

NextPredict ==
    \/ PredictClass
    \/ \E sorted_idx \in Orders : PredictValue(sorted_idx)
    \/ StagedClass
    \/ \E sorted_idx \in Orders : StagedValue(sorted_idx)
    \/ StagedStop

SpecPredict == InitPredict /\ [][NextPredict]_vars

---------------------------------------------------------------------------
(* Properties of fit. *)

Finite(w) == \A j \in DOMAIN w : ~IsNaN(w[j])
RECURSIVE SumInt(_)
SumInt(s) == IF s = <<>> THEN 0 ELSE Head(s) + SumInt(Tail(s))
Stepped == step.iboost >= 0
\* the number of iterations of the running/last fit whose triple was recorded
Recorded == IF Stepped /\ ~step.returned THEN attempted - 1 ELSE attempted
FromThisFit ==
    \A i \in DOMAIN estimators_ :
        estimators_[i] = [fit |-> fits, iboost |-> i - 1]

\* C1: for every input whose weights are finite (the supplied weights do not
\* sum to zero), the sample-weight vector handed to each _boost call sums
\* to 1: the one about to be handed over, and the one the latest call got.
C1_WeightsSumToOne ==
    /\ (pc = "boost" /\ Finite(sample_weight)) => RSum(sample_weight) = One
    /\ (Stepped /\ Finite(step.sample_weight)) => RSum(step.sample_weight) = One

\* an iteration changed the weights, their sum left 1, and the next
\* iteration is about to read the renormalised vector
C1_Witness ==
    /\ pc = "boost"
    /\ iboost = 1
    /\ Finite(step.boosted)
    /\ RSum(step.boosted) # One
    /\ sample_weight # step.boosted

\* C2: in every variant, once _boost has computed an error <= 0 the
\* iteration is recorded with error 0 and weight 1, its learner is the last
\* member, the weights came back unchanged, and no further learner is made.
C2_PerfectFitStops ==
    (Stepped /\ RLe(step.estimator_error, Zero)) =>
        /\ step.returned
        /\ estimator_errors_[step.iboost + 1] = Zero
        /\ estimator_weights_[step.iboost + 1] = Num(One)
        /\ Len(estimators_) = step.iboost + 1
        /\ step.boosted = step.sample_weight
        /\ pc # "boost"
        /\ attempted = step.iboost + 1

\* a perfect first iteration of SAMME.R, with iterations still allowed
C2_Witness ==
    /\ algorithm = "SAMME.R"
    /\ pc = "idle"
    /\ outcome = "returned"
    /\ Stepped
    /\ RLe(step.estimator_error, Zero)
    /\ step.iboost + 1 < n_estimators

\* C3: in SAMME, when iteration i computes an error >= 1 - 1/K, _boost
\* returns None, the learner of iteration i is removed, nothing is recorded
\* at index i, and the loop ends with exactly i members.
C3_DiscreteChanceLevel ==
    (algorithm = "SAMME" /\ Stepped
        /\ RGt(step.estimator_error, Zero)
        /\ RGe(step.estimator_error, ChanceLevel(n_classes_))) =>
        /\ ~step.returned
        /\ Len(estimators_) = step.iboost
        /\ FromThisFit
        /\ estimator_weights_[step.iboost + 1] = Num(Zero)
        /\ estimator_errors_[step.iboost + 1] = One
        /\ pc # "boost"
        /\ attempted = step.iboost + 1

\* the second iteration is at chance level: one member is left of two
C3_Witness ==
    /\ algorithm = "SAMME"
    /\ Stepped
    /\ step.iboost = 1
    /\ RGe(step.estimator_error, ChanceLevel(n_classes_))
    /\ Len(estimators_) = 1
    /\ pc = "idle"

\* C4: a regression fit that returns leaves at least one member; an
\* iteration with error >= 0.5 ends the loop, and its learner is discarded
\* exactly when it is not the only member.
C4_RegressionKeepsOne ==
    /\ (algorithm = "R2" /\ pc = "idle" /\ outcome = "returned") =>
           Len(estimators_) >= 1
    /\ (algorithm = "R2" /\ Stepped /\ RGe(step.estimator_error, Half)) =>
           /\ ~step.returned
           /\ pc # "boost"
           /\ attempted = step.iboost + 1
           /\ Len(estimators_) = IF step.iboost = 0 THEN 1 ELSE step.iboost
           /\ FromThisFit

\* the first regression iteration has error >= 0.5 and its learner is kept
C4_Witness ==
    /\ algorithm = "R2"
    /\ pc = "idle"
    /\ outcome = "returned"
    /\ step.iboost = 0
    /\ RGe(step.estimator_error, Half)
    /\ Len(estimators_) = 1

\* C5, as claimed: while a later fit is running, or after it aborted, the
\* members visible on the estimator are still those of the previous fit.
C5_OldEnsembleUntilDone ==
    (fits >= 2 /\ prev # <<>> /\ (pc # "idle" \/ outcome # "returned")) =>
        estimators_ = prev

\* C5, amended: a fit rejected for its arguments changes nothing; a fit
\* that passed the argument checks has cleared the previous results, so
\* while it runs and if it aborts the visible members are only its own,
\* and the weight and error arrays have n_estimators entries.
C5_ClearedOnceValidated ==
    /\ (pc = "idle" /\ outcome = "ValueError") => estimators_ = prev
    /\ (pc # "idle" \/ outcome \in {"AttributeError", "ZeroDivisionError"}) =>
           /\ FromThisFit
           /\ Len(estimators_) <= attempted
           /\ Len(estimator_weights_) = n_estimators
           /\ Len(estimator_errors_) = n_estimators

\* the second fit is in its loop, after a first fit that left members
C5_Witness ==
    /\ fits = 2
    /\ pc = "boost"
    /\ iboost = 1
    /\ prev # <<>>
    /\ Len(estimators_) = 1

\* C6, as claimed: a fit given weights whose sum is <= 0 ends with the
\* invalid-argument error and makes no weak learner.
C6_NonPositiveSumRejected ==
    (fits >= 1 /\ arg_sample_weight # <<>> /\ SumInt(arg_sample_weight) <= 0) =>
        /\ pc = "idle"
        /\ outcome = "ValueError"
        /\ attempted = 0

\* C10: after a second fit has returned, the members are those the second
\* fit made and kept, and the weight and error arrays hold nothing beyond
\* the iterations the second fit recorded.
C10_RefitReplaces ==
    (fits >= 2 /\ pc = "idle" /\ outcome = "returned") =>
        /\ FromThisFit
        /\ Len(estimators_) <= attempted
        /\ Len(estimator_weights_) = n_estimators
        /\ Len(estimator_errors_) = n_estimators
        /\ \A i \in 1..n_estimators :
               i > Recorded =>
                   /\ estimator_weights_[i] = Num(Zero)
                   /\ estimator_errors_[i] = One

\* the second fit returned with fewer members than the first had left
C10_Witness ==
    /\ fits = 2
    /\ pc = "idle"
    /\ outcome = "returned"
    /\ Len(prev) = 2
    /\ Recorded = 1
    /\ Len(estimators_) = 1

\* C11, as claimed: every prediction operation called on an estimator with
\* no members, never fitted or fitted with the only iteration discarded,
\* ends with the not-fitted error.
C11_EmptyRaisesNotFitted ==
    (call.op # None /\ estimators_ = <<>>) => call.raised = NotFitted

FitReturned == pc = "idle" /\ outcome = "returned"

\* C13, as claimed: after a fit has returned, the number of retained
\* members equals the number of iterations whose weight and error were
\* recorded, in every variant.
C13_MembersEqualRecorded ==
    FitReturned => Len(estimators_) = Recorded

\* C13, amended: after a fit has returned, member i is the learner made by
\* iteration i, the last recorded iteration left the error its _boost call
\* returned, the slots past the recorded iterations are untouched, and the
\* members are as many as the recorded iterations, except that a regression
\* fit whose first iteration failed (error >= 0.5) keeps that learner as
\* its only member, with nothing recorded for it.
C13_MembersRecordedButSole ==
    FitReturned =>
        /\ FromThisFit
        /\ Len(estimators_) =
               IF algorithm = "R2" /\ Recorded = 0 THEN 1 ELSE Recorded
        /\ step.returned =>
               /\ Recorded = step.iboost + 1
               /\ estimator_errors_[Recorded] =
                      IF RLe(step.estimator_error, Zero) THEN Zero
                      ELSE step.estimator_error
        /\ \A i \in 1..n_estimators :
               i > Recorded =>
                   /\ estimator_weights_[i] = Num(Zero)
                   /\ estimator_errors_[i] = One

\* a regression fit returned with one member and no recorded iteration
C13_Witness ==
    /\ algorithm = "R2"
    /\ FitReturned
    /\ Recorded = 0
    /\ Len(estimators_) = 1
    /\ estimator_weights_[1] = Num(Zero)
    /\ n_estimators = 2

\* the latest _boost call returned the termination sentinel, error 0, or
\* weights whose sum is <= 0
StepSentinel == Stepped /\ ~step.returned
StepZeroError == Stepped /\ step.returned /\ RLe(step.estimator_error, Zero)
StepNonPositiveSum ==
    Stepped /\ step.returned /\ RLe(RSum(step.boosted), Zero)

\* C15: a fit calls _boost once per loop index and at most n_estimators
\* times; after a call that returned None, error 0, or weights with sum
\* <= 0 no further call is made; in the latter two cases the learner and
\* the returned error stay recorded; when none of the three happened in
\* the loop, it ends after exactly n_estimators calls.
C15_LoopBounds ==
    /\ attempted <= n_estimators
    /\ Stepped => attempted = step.iboost + 1
    /\ (StepSentinel \/ StepZeroError \/ StepNonPositiveSum) => pc # "boost"
    /\ (StepZeroError \/ StepNonPositiveSum) =>
           /\ Len(estimators_) = step.iboost + 1
           /\ FromThisFit
           /\ estimator_weights_[step.iboost + 1] # Num(Zero)
           /\ estimator_errors_[step.iboost + 1] =
                  IF StepZeroError THEN Zero ELSE step.estimator_error
    /\ (Stepped /\ pc # "boost"
           /\ ~(StepSentinel \/ StepZeroError \/ StepNonPositiveSum)) =>
           attempted = n_estimators

\* the first iteration returned weights that sum to 0, the loop ended with
\* an iteration to spare, and the iteration is recorded
C15_Witness ==
    /\ FitReturned
    /\ StepNonPositiveSum
    /\ ~StepZeroError
    /\ step.iboost + 1 < n_estimators
    /\ Len(estimators_) = 1

Bootstrapped == algorithm = "R2" /\ Stepped /\ Finite(step.sample_weight)

\* C17, as claimed: exactly n indices are drawn, each in [0, n), and each
\* is the first index whose cumulative normalised weight is >= its draw.
C17_FirstAtLeast ==
    Bootstrapped =>
        LET cdf == Cdf(step.sample_weight)
            u == step.uniform_samples
        IN  /\ Len(step.bootstrap_idx) = NSamples
            /\ \A j \in Idx :
                   LET i == step.bootstrap_idx[j]
                   IN  /\ i \in 0..(NSamples - 1)
                       /\ RGe(cdf[i + 1], u[j])
                       /\ \A k \in 0..(i - 1) : RLt(cdf[k + 1], u[j])

\* C17, amended: exactly n indices are drawn, each in [0, n), and each is
\* the first index whose cumulative normalised weight is > its draw.
C17_FirstAbove ==
    Bootstrapped =>
        LET cdf == Cdf(step.sample_weight)
            u == step.uniform_samples
        IN  /\ Len(step.bootstrap_idx) = NSamples
            /\ \A j \in Idx :
                   LET i == step.bootstrap_idx[j]
                   IN  /\ i \in 0..(NSamples - 1)
                       /\ RGt(cdf[i + 1], u[j])
                       /\ \A k \in 0..(i - 1) : RLe(cdf[k + 1], u[j])

\* uniform weights and a draw equal to the first cumulative weight, 1/2:
\* the second sample is drawn for it, the first for the draw 0
C17_Witness ==
    /\ Bootstrapped
    /\ step.sample_weight = <<Half, Half>>
    /\ step.uniform_samples = <<Half, Zero>>
    /\ step.bootstrap_idx = <<1, 0>>

\* the weights a started fit begins with are all >= 0
NonNegativeStart ==
    /\ fits >= 1
    /\ outcome # "ValueError"
    /\ \A j \in Idx : RGe(InitialWeights(arg_sample_weight)[j], Zero)

\* C18: in a fit that starts from weights >= 0, the weights handed to and
\* returned by every _boost call and those kept by the loop are >= 0; a
\* sample whose weight is 0 at the start, or when handed to a call, has
\* weight 0 afterwards, and a regression step never draws it.
C18_NonNegativeKept ==
    NonNegativeStart =>
        /\ \A j \in DOMAIN sample_weight :
               /\ RGe(sample_weight[j], Zero)
               /\ InitialWeights(arg_sample_weight)[j] = Zero =>
                      sample_weight[j] = Zero
        /\ Stepped =>
               \A j \in Idx :
                   /\ RGe(step.sample_weight[j], Zero)
                   /\ step.returned => RGe(step.boosted[j], Zero)
                   /\ step.sample_weight[j] = Zero =>
                          /\ step.returned => step.boosted[j] = Zero
                          /\ sample_weight # <<>> => sample_weight[j] = Zero
                          /\ \A l \in DOMAIN step.bootstrap_idx :
                                 step.bootstrap_idx[l] # j - 1

\* the second SAMME.R iteration was handed a weight that has been 0 since
\* the start, next to one that is not
C18_Witness ==
    /\ algorithm = "SAMME.R"
    /\ NonNegativeStart
    /\ arg_sample_weight = <<0, 1>>
    /\ step.iboost = 1
    /\ step.returned
    /\ step.sample_weight = <<Zero, One>>
    /\ step.boosted = <<Zero, One>>

\* estimator_weight > 0, estimator_weight == 0
PositiveW(w) == IF w.k = "ln" THEN RGt(ExpW(w), One) ELSE RGt(w.v, Zero)
ZeroW(w) == IF w.k = "ln" THEN REq(ExpW(w), One) ELSE REq(w.v, Zero)
\* the weights of the first m members sum to a positive number: none is
\* negative or NaN and one is positive
MassPositive(m) ==
    /\ \A i \in 1..m : PositiveW(estimator_weights_[i]) \/ ZeroW(estimator_weights_[i])
    /\ \E i \in 1..m : PositiveW(estimator_weights_[i])
FiniteStart == Finite(InitialWeights(arg_sample_weight))

\* C19, as claimed: after a fit (learning_rate > 0) every recorded
\* estimator weight is > 0 and the weights of every non-empty prefix of the
\* members sum to a positive number.
C19_AllPositive ==
    (FitReturned /\ learning_rate > 0) =>
        /\ \A i \in 1..Recorded : PositiveW(estimator_weights_[i])
        /\ \A m \in 1..Len(estimators_) : MassPositive(m)

\* C19, amended: after a fit that began with finite sample weights every
\* recorded estimator weight is > 0, and the weights of every non-empty
\* prefix of the members sum to a positive number unless the ensemble is
\* the sole learner of a regression fit whose first iteration failed: its
\* weight is the initial 0.  After a fit that began with NaN weights (the
\* supplied weights summed to 0) the recorded weights are 1 in SAMME.R and
\* NaN in SAMME and regression.
C19_PositiveButSoleOrNaN ==
    (FitReturned /\ learning_rate > 0) =>
        /\ FiniteStart =>
               /\ \A i \in 1..Recorded : PositiveW(estimator_weights_[i])
               /\ Recorded >= 1 =>
                      \A m \in 1..Len(estimators_) : MassPositive(m)
               /\ (Recorded = 0 /\ estimators_ # <<>>) =>
                      /\ algorithm = "R2"
                      /\ Len(estimators_) = 1
                      /\ estimator_weights_[1] = Num(Zero)
        /\ ~FiniteStart =>
               \A i \in 1..Recorded :
                   estimator_weights_[i] =
                       IF algorithm = "SAMME.R" THEN Num(One) ELSE Num(NaN)

\* a SAMME fit recorded two iterations with errors between 0 and the
\* chance level: both weights are logarithms of numbers > 1
C19_Witness ==
    /\ algorithm = "SAMME"
    /\ FitReturned
    /\ FiniteStart
    /\ Recorded = 2
    /\ Len(estimators_) = 2
    /\ estimator_weights_[1].k = "ln"
    /\ estimator_weights_[2].k = "ln"

---------------------------------------------------------------------------
(* Properties of the predictors, under SpecPredict. *)

Predicted == y_predict # NoPrediction

\* C7: staged_predict yields one prediction per retained member and no
\* more, and once it is exhausted its last element is what predict returns.
C7_StagedEndsAtPredict ==
    /\ Len(staged) <= Len(estimators_)
    /\ acc.done => Len(staged) = Len(estimators_)
    /\ (acc.done /\ Predicted) => staged[Len(staged)] = y_predict

\* a SAMME ensemble whose first prefix votes differently from the whole
C7_Witness ==
    /\ algorithm = "SAMME"
    /\ acc.done
    /\ Predicted
    /\ Len(staged) >= 2
    /\ staged[1] # staged[Len(staged)]

\* the weight mass of the first m members whose prediction is <= v
RECURSIVE MassUpTo(_, _)
MassUpTo(m, v) ==
    IF m = 0 THEN Zero
    ELSE RAdd(MassUpTo(m - 1, v),
              IF est_predict[m] <= v THEN estimator_weights_[m].v ELSE Zero)
\* the smallest prediction of the first m members at which the cumulative
\* mass reaches half of their total mass
WeightedMedian(m) ==
    LET total == MassUpTo(m, MaxValue)
        reach == {est_predict[i] : i \in {j \in 1..m :
                     RGe(RMul(Rat(2, 1), MassUpTo(m, est_predict[j])), total)}}
    IN  CHOOSE v \in reach : \A u \in reach : v <= u

\* C8: the regression prediction over the members considered is the
\* smallest of their predictions at which the cumulative weight mass, taken
\* in ascending order of prediction, is >= half of their total mass.
C8_WeightedMedian ==
    algorithm = "R2" =>
        /\ Predicted => y_predict = WeightedMedian(Len(estimators_))
        /\ \A i \in 1..Len(staged) : staged[i] = WeightedMedian(i)

\* the mass reaches exactly one half at the selected prediction, and a
\* larger prediction exists
C8_Witness ==
    /\ algorithm = "R2"
    /\ Predicted
    /\ Len(estimators_) = 2
    /\ estimator_weights_[1] = estimator_weights_[2]
    /\ est_predict[1] < est_predict[2]
    /\ y_predict = est_predict[1]

\* three members predicting 1, 2, 3 with weights 0.2, 0.3, 0.5
C9_Case ==
    /\ algorithm = "R2"
    /\ est_predict = <<1, 2, 3>>
    /\ estimator_weights_ = <<Num(Rat(2, 10)), Num(Rat(3, 10)), Num(Rat(5, 10))>>

\* C9, as claimed: predict selects 3.0
C9_Selects3 == (C9_Case /\ Predicted) => y_predict = 3

\* C9, amended: predict selects 2.0, the prediction at which the cumulative
\* mass 0.2 + 0.3 reaches half of the total mass 1.0
C9_Selects2 == (C9_Case /\ Predicted) => y_predict = 2

C9_Witness == C9_Case /\ Predicted /\ acc.done

\* C12, as claimed: in every staged sequence the prediction for prefix i
\* queries member i only, so each member of the prefixes produced so far
\* has been queried exactly once and no member beyond them at all.
C12_EachMemberOnce ==
    \A i \in DOMAIN queries :
        queries[i] = IF i <= Len(staged) THEN 1 ELSE 0

\* C12, amended: no member beyond the prefixes produced so far has been
\* queried; the classification sequences query member i once, for prefix
\* i; the regression sequence queries members 1..i for prefix i, so after
\* n prefixes member i has been queried n - i + 1 times.
C12_StagedQueries ==
    \A i \in DOMAIN queries :
        queries[i] = IF i > Len(staged) THEN 0
                     ELSE IF algorithm = "R2" THEN Len(staged) - i + 1
                     ELSE 1

\* a full staged run over three regression members
C12_Witness ==
    /\ algorithm = "R2"
    /\ acc.done
    /\ Len(staged) = 3
    /\ queries = <<3, 2, 1>>

RNeg(r) == RMul(r, Rat(-1, 1))

\* C14: with two classes the decision predict computed is the second
\* class's normalised score minus the first class's, and decision_function
\* on the members' outputs with the two labels exchanged is its negation.
C14_RelabelNegates ==
    (algorithm # "R2" /\ n_classes_ = 2 /\ decision # <<>>) =>
        LET a == Accumulate(est_predict, Zipped, 2)
        IN  /\ decision = <<RSub(RDiv(a.pred[2], a.norm),
                                 RDiv(a.pred[1], a.norm))>>
            /\ decision_function(Relabelled(est_predict), 2) =
                   <<RNeg(decision[1])>>

\* predict has run on a SAMME.R ensemble of several members whose decision
\* is not zero
C14_Witness ==
    /\ algorithm = "SAMME.R"
    /\ n_classes_ = 2
    /\ Len(estimators_) >= 2
    /\ Predicted
    /\ decision # <<>>
    /\ decision[1] # Zero

============================================================================
